---- MODULE Spec2Model ----
(***************************************************************************)
(* Model of the MS MARCO dialogue data processor                           *)
(* (DialogueMSMarcoDataProcessor) and of the sequence-to-sequence          *)
(* generation dataset built on it (DialogueS2SGenerationDataset).          *)
(*                                                                         *)
(* Python strings are sequences of one-character strings, so that split,   *)
(* strip, join and str() are computed character by character.  Python      *)
(* None is the value None below, a JSON string-or-list value carries its   *)
(* type in the field t.                                                    *)
(***************************************************************************)
EXTENDS Integers, Sequences, FiniteSets, TLC

VARIABLES
    files,      \* the data directory: file name -> raw corpus (json.load result)
    idxs,       \* per split: the index list of the last get_dialog_examples call
    returned,   \* per split: the outcome of the last get_dialog_examples call
    cfg,        \* the dataset's configuration (cfg.input_field, ...)
    ds,         \* the dataset object: status, split, features
    fetched,    \* history: what the processor returned to the constructor
    filtered,   \* history: self.features after remove_invalid_samples, before [:16]
    built,      \* history: self.features when the constructor returned
    last,       \* the outcome of the last __getitem__ call
    lenResult   \* the value of the last __len__ call

vars == <<files, idxs, returned, cfg, ds, fetched, filtered, built, last, lenResult>>

-----------------------------------------------------------------------------
(* Bounds of the model *)

\* largest number of records of a source file in the processor specification
MaxN == 11
\* largest number of records of a source file in the dataset specification
MaxRecords == 17
\* the largest max_seq_length a configuration is given
MaxSeqLen == 3

-----------------------------------------------------------------------------
(* Python values *)

None == <<"<None>">>

Truthy(v) == v # None /\ v # <<>>

Whitespace == {" ", "\t", "\n"}

DigitChars == <<"0", "1", "2", "3", "4", "5", "6", "7", "8", "9">>

RECURSIVE Str(_)
\* str(i) of a non-negative integer
Str(i) == IF i < 10 THEN <<DigitChars[i + 1]>>
          ELSE Str(i \div 10) \o <<DigitChars[(i % 10) + 1]>>

RECURSIVE IntOfStr(_)
\* int(s) of a string of decimal digits
IntOfStr(s) ==
    IF Len(s) = 0 THEN 0
    ELSE 10 * IntOfStr(SubSeq(s, 1, Len(s) - 1))
         + ((CHOOSE d \in 1..10 : DigitChars[d] = s[Len(s)]) - 1)

\* int(x) of an integer-like JSON value: a number or a string of digits
PyInt(x) == IF x.t = "int" THEN x.v ELSE IntOfStr(x.v)

RECURSIVE LStrip(_)
LStrip(s) == IF Len(s) > 0 /\ Head(s) \in Whitespace THEN LStrip(Tail(s)) ELSE s

RECURSIVE RStrip(_)
RStrip(s) == IF Len(s) > 0 /\ s[Len(s)] \in Whitespace
             THEN RStrip(SubSeq(s, 1, Len(s) - 1)) ELSE s

\* str.strip()
Strip(s) == RStrip(LStrip(s))

RECURSIVE Split(_, _)
\* str.split(sep) for a one-character separator
Split(s, sep) ==
    IF \A k \in 1..Len(s) : s[k] # sep THEN <<s>>
    ELSE LET k == CHOOSE j \in 1..Len(s) :
                      s[j] = sep /\ \A h \in 1..(j - 1) : s[h] # sep
         IN  <<SubSeq(s, 1, k - 1)>> \o Split(SubSeq(s, k + 1, Len(s)), sep)

RECURSIVE Join(_, _)
\* sep.join(parts)
Join(sep, parts) ==
    IF Len(parts) = 0 THEN <<>>
    ELSE IF Len(parts) = 1 THEN parts[1]
    ELSE parts[1] \o sep \o Join(sep, Tail(parts))

\* ast.literal_eval on the encodings of a list of strings that occur in the
\* wellFormedAnswers column: "[]" and "['...']"; anything else is an error
LiteralEval(s) ==
    IF s = <<"[", "]">> THEN [ok |-> TRUE, v |-> <<>>]
    ELSE IF /\ Len(s) >= 4
            /\ SubSeq(s, 1, 2) = <<"[", "'">>
            /\ SubSeq(s, Len(s) - 1, Len(s)) = <<"'", "]">>
            /\ \A k \in 3..(Len(s) - 2) : s[k] \notin {"'", "\\", "[", "]"}
         THEN [ok |-> TRUE, v |-> <<SubSeq(s, 3, Len(s) - 2)>>]
    ELSE [ok |-> FALSE, v |-> <<>>]

\* a dict with one more key (d[k] = v)
Put(d, k, v) == [x \in (DOMAIN d) \cup {k} |-> IF x = k THEN v ELSE d[x]]

-----------------------------------------------------------------------------
(* Names *)

utteranceField == <<"u", "t", "t", "e", "r", "a", "n", "c", "e">>
passageField == <<"p", "a", "s", "s", "a", "g", "e">>
responseField == <<"r", "e", "s", "p", "o", "n", "s", "e">>
fluentResponseField ==
    <<"f", "l", "u", "e", "n", "t", "_", "r", "e", "s", "p", "o", "n", "s", "e">>
serviceField == <<"s", "e", "r", "v", "i", "c", "e">>

ServiceNames ==
    <<"L", "O", "C", "A", "T", "I", "O", "N", ",", "N", "U", "M", "E", "R", "I", "C",
      ",", "P", "E", "R", "S", "O", "N", ",", "D", "E", "S", "C", "R", "I", "P", "T",
      "I", "O", "N", ",", "E", "N", "T", "I", "T", "Y">>

\* "LOCATION,NUMERIC,PERSON,DESCRIPTION,ENTITY".split(',')
ServiceList == Split(ServiceNames, ",")

Splits == {"train", "dev", "test"}

\* the columns of a raw corpus
Columns == {"query", "answers", "wellFormedAnswers", "query_type", "passages"}

-----------------------------------------------------------------------------
(* Raw corpora: the JSON files under data_dir *)

Text(c) == <<c>>
JStr(s) == [t |-> "str", v |-> s]
JList(l) == [t |-> "list", v |-> l]
JInt(n) == [t |-> "int", v |-> n]
Cand(text, flag) == [passage_text |-> text, is_selected |-> flag]

\* The records the corpora are made of, one per shape of record the processor
\* and the dataset's filter tell apart.
RecordKinds == <<
    \* every field present; two passages are selected
    [query |-> Text("U"),
     answers |-> JList(<< <<"A", "B">>, Text("C") >>),
     wellFormedAnswers |-> JList(<< Text("W") >>),
     query_type |-> <<"N", "U", "M", "E", "R", "I", "C">>,
     passages |-> << Cand(Text("R"), JInt(0)), Cand(Text("P"), JInt(1)),
                     Cand(Text("Q"), JInt(1)) >>],
    \* a plain answer, "[]" as well-formed answer, flags given as strings
    [query |-> Text("V"),
     answers |-> JStr(Text("A")),
     wellFormedAnswers |-> JStr(<<"[", "]">>),
     query_type |-> <<"P", "E", "R", "S", "O", "N">>,
     passages |-> << Cand(Text("P"), JStr(Text("0"))),
                     Cand(Text("Q"), JStr(Text("0"))) >>],
    \* a blank query, an empty answer, no candidate passage
    [query |-> Text(" "),
     answers |-> JList(<< <<>> >>),
     wellFormedAnswers |-> JStr(<<"[", "'", "W", "'", "]">>),
     query_type |-> <<"E", "N", "T", "I", "T", "Y">>,
     passages |-> << >>],
    \* a whitespace answer, an empty list of well-formed answers
    [query |-> Text("U"),
     answers |-> JStr(<<" ", "\t">>),
     wellFormedAnswers |-> JList(<< >>),
     query_type |-> <<"L", "O", "C", "A", "T", "I", "O", "N">>,
     passages |-> << Cand(Text("P"), JInt(2)) >>],
    \* the selected passage is blank
    [query |-> Text("V"),
     answers |-> JList(<< Text("A") >>),
     wellFormedAnswers |-> JList(<< Text("W"), Text("X") >>),
     query_type |-> <<"D", "E", "S", "C", "R", "I", "P", "T", "I", "O", "N">>,
     passages |-> << Cand(Text("P"), JStr(Text("0"))),
                     Cand(Text(" "), JStr(Text("1"))) >>]
>>

NumKinds == Len(RecordKinds)

\* the kind of record at index i of a corpus: all alike (stride 0) or cycling
KindAt(i, off, stride) == ((i * stride + off) % NumKinds) + 1

NoDefect == [kind |-> "none", col |-> "query", idx |-> 0]

\* the keys of a column: 0..n-1, less a dropped key, plus a key past the end
ColumnIndices(col, n, defect) ==
    IF defect.kind = "drop" /\ defect.col = col THEN (0..(n - 1)) \ {defect.idx}
    ELSE IF defect.kind = "extra" /\ defect.col = col THEN 0..n
    ELSE 0..(n - 1)

\* a raw corpus: parallel mappings keyed by the stringified index
Corpus(n, off, stride, defect) ==
    [col \in Columns |->
        [key \in {Str(i) : i \in ColumnIndices(col, n, defect)} |->
            RecordKinds[KindAt(IntOfStr(key), off, stride)][col]]]

TrainFile == "train_v2.1.json"
DevFile == "dev_v2.1.json"

-----------------------------------------------------------------------------
(* DialogueMSMarcoDataProcessor *)

\* a bug: the test split reads the train file too
SourceFileAlwaysTrain(dataset_split) == TrainFile

\* dataset_split_print and the file name formed from it
SourceFile(dataset_split) ==
    CASE dataset_split = "train" -> TrainFile
      [] dataset_split = "dev" -> TrainFile
      [] dataset_split = "test" -> DevFile

\* range(n)
Range(n) == [k \in 1..n |-> k - 1]

\* a bug: the train split drops the indices after the multiples of 10
TrainKeepsShifted(idx) == idx % 10 # 1

TrainKeeps(idx) == idx % 10 # 0

DevKeeps(idx) == idx % 10 = 0

TestKeeps(idx) == TRUE

\* idxs: the indices of range(len(raw_examples['answers'])) the split keeps
SelectIdxs(dataset_split, n) ==
    CASE dataset_split = "train" -> SelectSeq(Range(n), TrainKeeps)
      [] dataset_split = "dev" -> SelectSeq(Range(n), DevKeeps)
      [] dataset_split = "test" -> SelectSeq(Range(n), TestKeeps)

\* a bug: the flag tested for truth without int(), so that "0" is selected
IsSelectedUncoerced(candidate) ==
    IF candidate.is_selected.t = "int" THEN candidate.is_selected.v # 0
    ELSE candidate.is_selected.v # <<>>

\* is_selected coerced with int(), then tested for truth
IsSelected(candidate) == PyInt(candidate.is_selected) # 0

\* the texts of the selected candidates; the first one or None
SelectedPassage(candidate_passages) ==
    LET sel == SelectSeq(candidate_passages, IsSelected)
        passage == [k \in 1..Len(sel) |-> sel[k].passage_text]
    IN  IF passage # <<>> THEN passage[1] ELSE None

PossiblePassages(candidate_passages) ==
    [k \in 1..Len(candidate_passages) |-> candidate_passages[k].passage_text]

\* the key the record of index i is read at
RecordKey(i) == Str(i)

\* a bug: example ids counted from 1
ExampleIdOneBased(i) == i + 1

\* example_id of the example built from index i
ExampleId(i) == i

NoExample == [utterance |-> <<>>, example_id |-> -1]

\* one iteration of the loop over idxs: the example of index i, or the
\* exception the first failing statement raises
ProcessRecord(raw_examples, i) ==
    LET key == RecordKey(i)
        Missing(col) == key \notin DOMAIN raw_examples[col]
        Fail(e) == [status |-> e, example |-> NoExample]
    IN
    IF Missing("query") THEN Fail("KeyError")
    ELSE IF Missing("answers") THEN Fail("KeyError")
    ELSE IF raw_examples["answers"][key].t = "list"
            /\ raw_examples["answers"][key].v = <<>> THEN Fail("IndexError")
    ELSE IF Missing("wellFormedAnswers") THEN Fail("KeyError")
    ELSE IF raw_examples["wellFormedAnswers"][key].t # "list"
            /\ ~LiteralEval(raw_examples["wellFormedAnswers"][key].v).ok
         THEN Fail("SyntaxError")
    ELSE IF Missing("query_type") THEN Fail("KeyError")
    ELSE IF Missing("passages") THEN Fail("KeyError")
    ELSE
    LET utterance == raw_examples["query"][key]
        raw_answer == raw_examples["answers"][key]
        answer == IF raw_answer.t = "list" THEN raw_answer.v[1] ELSE raw_answer.v
        raw_wfa == raw_examples["wellFormedAnswers"][key]
        wfa_list == IF raw_wfa.t = "list" THEN raw_wfa.v ELSE LiteralEval(raw_wfa.v).v
        well_formed_answer == IF wfa_list # <<>> THEN wfa_list[1] ELSE None
        query_type == raw_examples["query_type"][key]
        candidate_passages == raw_examples["passages"][key]
    IN  [status |-> "ok",
         example |->
            [utterance |-> utterance,
             example_id |-> ExampleId(i),
             labels |-> (serviceField :> query_type)
                        @@ (responseField :> answer)
                        @@ (fluentResponseField :> well_formed_answer)
                        @@ (passageField :> SelectedPassage(candidate_passages)),
             possible_labels |->
                [service |-> ServiceList,
                 passage |-> PossiblePassages(candidate_passages)]]]

\* a bug: a record that raises is skipped and the others are returned
GetDialogExamplesSkipping(fs, dataset_split) ==
    LET raw_examples == fs[SourceFile(dataset_split)]
        n == Cardinality(DOMAIN raw_examples["answers"])
        ix == SelectIdxs(dataset_split, n)
        rs == [k \in 1..Len(ix) |-> ProcessRecord(raw_examples, ix[k])]
        Good(r) == r.status = "ok"
        good == SelectSeq(rs, Good)
    IN  [idxs |-> ix, status |-> "ok",
         examples |-> [k \in 1..Len(good) |-> good[k].example]]

\* get_dialog_examples: the index list, and the examples in the order of the
\* index list, or the exception of the first record that raises
GetDialogExamples(fs, dataset_split) ==
    LET raw_examples == fs[SourceFile(dataset_split)]
        n == Cardinality(DOMAIN raw_examples["answers"])
        ix == SelectIdxs(dataset_split, n)
        rs == [k \in 1..Len(ix) |-> ProcessRecord(raw_examples, ix[k])]
        bad == {k \in 1..Len(ix) : rs[k].status # "ok"}
    IN  IF bad = {}
        THEN [idxs |-> ix, status |-> "ok",
              examples |-> [k \in 1..Len(ix) |-> rs[k].example]]
        ELSE [idxs |-> ix,
              status |-> rs[CHOOSE k \in bad : \A h \in bad : k <= h].status,
              examples |-> <<>>]

NotCalled == [status |-> "none", examples |-> <<>>]

-----------------------------------------------------------------------------
(* The tokenizer and the tensors (collaborators of the dataset) *)

\* the characters the tokenizer knows, one token each
Vocab ==
    <<
      "a", "b", "c", "d", "e", "f", "g", "h", "i", "j", "k", "l", "m",
      "n", "o", "p", "q", "r", "s", "t", "u", "v", "w", "x", "y", "z",
      "A", "B", "C", "D", "E", "F", "G", "H", "I", "J", "K", "L", "M",
      "N", "O", "P", "Q", "R", "S", "T", "U", "V", "W", "X", "Y", "Z",
      "_", ":", "+", " ", "\t", "\n">>

pad_token_id == 0
eos_token_id == 1

\* Python's -100, the label value the loss ignores
IgnoreIndex == -100

TokenId(c) == eos_token_id + (CHOOSE k \in 1..Len(Vocab) : Vocab[k] = c)

Min(a, b) == IF a <= b THEN a ELSE b

\* tokenizer(sentence, truncation=True, max_length=L, padding="max_length",
\* return_tensors="pt"): one row of exactly L ids, the sentence's tokens cut
\* to leave room for the end-of-sequence token, then padding.
Tokenize(sentence, max_length) ==
    LET kept == Min(Len(sentence), max_length - 1)
        ids == [k \in 1..kept |-> TokenId(sentence[k])] \o <<eos_token_id>>
    IN  [input_ids |->
            [shape |-> <<1, max_length>>,
             data |-> [k \in 1..max_length |->
                          IF k <= Len(ids) THEN ids[k] ELSE pad_token_id]],
         attention_mask |->
            [shape |-> <<1, max_length>>,
             data |-> [k \in 1..max_length |-> IF k <= Len(ids) THEN 1 ELSE 0]]]

NotOne(d) == d # 1

\* torch.squeeze(t): every dimension of size 1 is removed
Squeeze(t) == [shape |-> SelectSeq(t.shape, NotOne), data |-> t.data]

\* t[t == value] = fill
MaskedFill(t, value, fill) ==
    [shape |-> t.shape,
     data |-> [k \in 1..Len(t.data) |-> IF t.data[k] = value THEN fill ELSE t.data[k]]]

-----------------------------------------------------------------------------
(* DialogueS2SGenerationDataset *)

\* self.features[:16] in debug mode
DebugLimit == 16

\* the labels after  data["labels"]["utterance"] = data["utterance"]
InjectUtterance(ex) ==
    [ex EXCEPT !.labels = Put(ex.labels, utteranceField, ex.utterance)]

\* all_fields of remove_invalid_samples
AllFields(c) == Split(c.input_field, "+") \o Split(c.output_field, "+")

\* a bug: the field tested without strip()
FieldEmptyUnstripped(v) == ~Truthy(v)

\* not labels[field] or not labels[field].strip()
FieldEmpty(v) == ~Truthy(v) \/ ~Truthy(Strip(v))

\* all_fields_non_empty at the end of the loop over the fields
AllFieldsNonEmpty(ex, c) ==
    \A k \in 1..Len(AllFields(c)) : ~FieldEmpty(ex.labels[AllFields(c)[k]])

\* remove_invalid_samples: the examples (utterance injected) whose fields are
\* all non-empty, in order; KeyError when a field is no key of the labels
RemoveInvalidSamples(features, c) ==
    LET injected == [i \in 1..Len(features) |-> InjectUtterance(features[i])]
        Known(ex) == \A k \in 1..Len(AllFields(c)) :
                        AllFields(c)[k] \in DOMAIN ex.labels
        Valid(ex) == AllFieldsNonEmpty(ex, c)
    IN  IF \E i \in 1..Len(injected) : ~Known(injected[i])
        THEN [status |-> "KeyError", features |-> <<>>]
        ELSE [status |-> "ok", features |-> SelectSeq(injected, Valid)]

\* a bug: the prefix is one element too long
PrefixOneMore(features, limit) == SubSeq(features, 1, Min(Len(features), limit + 1))

\* features[:limit]
Prefix(features, limit) == SubSeq(features, 1, Min(Len(features), limit))

\* the truncation of __init__
Truncate(features, c) ==
    IF c.debug_mode THEN Prefix(features, DebugLimit) ELSE features

\* a bug: the formatted fragment is written back into the labels
PromptWriteFragment(ex) == utteranceField \o <<":", " ">> \o ex.utterance

\* the value format_prompt writes into ex["labels"]["utterance"]
PromptWrite(ex) == ex.utterance

\* a bug: no space after the colon
FragmentNoSpace(ex, part) == part \o <<":">> \o ex.labels[part]

\* one fragment of the prompt: part + ': ' + ex["labels"][part]
Fragment(ex, part) == part \o <<":", " ">> \o ex.labels[part]

\* format_prompt: the example after the write, and the input sentence
FormatPrompt(ex, c) ==
    LET ex2 == [ex EXCEPT !.labels = Put(ex.labels, utteranceField, PromptWrite(ex))]
        parts == Split(c.input_field, "+")
    IN  IF \E k \in 1..Len(parts) : parts[k] \notin DOMAIN ex2.labels
        THEN [status |-> "KeyError", ex |-> ex2, input_sentence |-> <<>>]
        ELSE IF \E k \in 1..Len(parts) : ex2.labels[parts[k]] = None
        THEN [status |-> "TypeError", ex |-> ex2, input_sentence |-> <<>>]
        ELSE [status |-> "ok", ex |-> ex2,
              input_sentence |->
                  Join(<<" ">>, [k \in 1..Len(parts) |-> Fragment(ex2, parts[k])])]

\* default_encode: the squeezed input ids and attention mask
DefaultEncode(sentence, c) ==
    LET encodings_dict == Tokenize(sentence, c.max_seq_length)
    IN  [input_ids |-> Squeeze(encodings_dict.input_ids),
         attn_masks |-> Squeeze(encodings_dict.attention_mask)]

\* labels[labels == pad_token_id] = -100
MaskLabels(labels) == MaskedFill(labels, pad_token_id, IgnoreIndex)

NoTensor == [shape |-> <<>>, data |-> <<>>]

NoItem ==
    [status |-> "none", idx |-> 0, input_sentence |-> <<>>, output_sentence |-> <<>>,
     input_ids |-> NoTensor, attn_masks |-> NoTensor, labels |-> NoTensor]

\* the position of features[idx] (Python indexing), 0 when out of range
Position(idx, n) ==
    IF 0 <= idx /\ idx < n THEN idx + 1
    ELSE IF idx < 0 /\ -n <= idx THEN n + idx + 1
    ELSE 0

-----------------------------------------------------------------------------
(* Initial states *)

NoCfg == [input_field |-> <<>>, output_field |-> <<>>, max_seq_length |-> 1,
          debug_mode |-> FALSE]

NoDataset == [status |-> "none", split |-> "none", features |-> <<>>]

Fresh ==
    /\ idxs = [s \in Splits |-> <<>>]
    /\ returned = [s \in Splits |-> NotCalled]
    /\ cfg = NoCfg
    /\ ds = NoDataset
    /\ fetched = <<>>
    /\ filtered = <<>>
    /\ built = <<>>
    /\ last = NoItem
    /\ lenResult = -1

\* the ways the key sets of the columns of a file disagree
Defects ==
    {NoDefect}
    \cup {[kind |-> "drop", col |-> c, idx |-> 1] : c \in Columns}
    \cup {[kind |-> "drop", col |-> c, idx |-> 0] : c \in {"query", "answers"}}
    \cup {[kind |-> "extra", col |-> c, idx |-> 0] : c \in {"query", "answers"}}

\* the values of max_seq_length, input_field, output_field and debug_mode
Configs ==
    [input_field : {utteranceField, passageField \o <<"+">> \o utteranceField,
                    serviceField \o <<"+">> \o passageField \o <<"+">> \o utteranceField},
     output_field : {responseField, fluentResponseField,
                     responseField \o <<"+">> \o fluentResponseField},
     max_seq_length : {1, MaxSeqLen},
     debug_mode : BOOLEAN]

\* the sizes of the files the dataset is built on: around 0 and around the
\* debug limit
DatasetSizes == (0..1) \cup (DebugLimit..MaxRecords)

\* the indices __getitem__ is called with
GetIdxs == {-1, 0, 1, DebugLimit - 1, DebugLimit}

\* the processor's files: any two sizes, records cycling through the kinds
\* (from a different kind in each file), one defect in the key sets of both
ProcessorInit ==
    /\ \E n \in 0..MaxN, m \in 0..MaxN, d \in Defects :
          files = (TrainFile :> Corpus(n, 0, 1, d))
                  @@ (DevFile :> Corpus(m, 2, 1, d))
    /\ Fresh

\* the dataset's files: well-formed corpora, one file of records cycling
\* through the kinds and one of records all alike
Init ==
    /\ \E n \in DatasetSizes, off \in 0..(NumKinds - 1), stride \in {0, 1} :
          /\ stride = 0 => off = 0
          /\ files = (TrainFile :> Corpus(n, off, stride, NoDefect))
                     @@ (DevFile :> Corpus(n, off, 1 - stride, NoDefect))
    /\ Fresh

-----------------------------------------------------------------------------
(* Operations *)

\* get_train_examples, get_dev_examples, get_test_examples
GetExamples(dataset_split) ==
    LET r == GetDialogExamples(files, dataset_split)
    IN  /\ idxs' = [idxs EXCEPT ![dataset_split] = r.idxs]
        /\ returned' = [returned EXCEPT ![dataset_split] =
                            [status |-> r.status, examples |-> r.examples]]
        /\ UNCHANGED <<files, cfg, ds, fetched, filtered, built, last, lenResult>>

\* DialogueS2SGenerationDataset(dataset_split, dialogues_processor, tokenizer, c):
\* __init__ runs once, on the object not yet constructed
Construct(split_arg, c) ==
    LET dataset_split == IF split_arg.t = "str" THEN split_arg.v ELSE split_arg.v[1]
        r == GetDialogExamples(files, dataset_split)
        f == RemoveInvalidSamples(r.examples, c)
        ok == r.status = "ok" /\ f.status = "ok"
    IN  /\ ds.status = "none"
        /\ cfg' = c
        /\ fetched' = r.examples
        /\ filtered' = IF ok THEN f.features ELSE <<>>
        /\ ds' = [status |-> IF r.status # "ok" THEN r.status ELSE f.status,
                  split |-> dataset_split,
                  features |-> IF ok THEN Truncate(f.features, c) ELSE <<>>]
        /\ built' = ds'.features
        /\ last' = NoItem
        /\ lenResult' = -1
        /\ UNCHANGED <<files, idxs, returned>>

\* __len__
Length ==
    /\ ds.status = "ok"
    /\ lenResult' = Len(ds.features)
    /\ UNCHANGED <<files, idxs, returned, cfg, ds, fetched, filtered, built, last>>

\* __getitem__(idx) on a feature list: the list after the call (format_prompt
\* writes into the example) and what the call returns or raises
GetItemResult(features, c, idx) ==
    LET pos == Position(idx, Len(features))
    IN
    IF pos = 0
    THEN [features |-> features,
          item |-> [NoItem EXCEPT !.status = "IndexError", !.idx = idx]]
    ELSE
    LET p == FormatPrompt(features[pos], c)
        known == c.output_field \in DOMAIN p.ex.labels
        output_sentence == p.ex.labels[c.output_field]
        enc_in == DefaultEncode(p.input_sentence, c)
        enc_out == DefaultEncode(output_sentence, c)
    IN  [features |-> [features EXCEPT ![pos] = p.ex],
         item |->
            IF p.status # "ok"
            THEN [NoItem EXCEPT !.status = p.status, !.idx = idx]
            ELSE IF ~known
            THEN [NoItem EXCEPT !.status = "KeyError", !.idx = idx,
                                !.input_sentence = p.input_sentence]
            ELSE [status |-> "ok", idx |-> idx,
                  input_sentence |-> p.input_sentence,
                  output_sentence |-> output_sentence,
                  input_ids |-> enc_in.input_ids,
                  attn_masks |-> enc_in.attn_masks,
                  labels |-> MaskLabels(enc_out.input_ids)]]

\* __getitem__(idx)
GetItem(idx) ==
    /\ ds.status = "ok"
    /\ LET r == GetItemResult(ds.features, cfg, idx)
       IN  /\ ds' = [ds EXCEPT !.features = r.features]
           /\ last' = r.item
    /\ UNCHANGED <<files, idxs, returned, cfg, fetched, filtered, built, lenResult>>

\* the split argument: a bare string or a list holding one
SplitArg(s, listed) == IF listed THEN JList(<<s>>) ELSE JStr(s)

ProcessorNext == \E s \in Splits : GetExamples(s)

Next ==
    \/ \E s \in Splits, listed \in BOOLEAN, c \in Configs :
          Construct(SplitArg(s, listed), c)
    \/ Length
    \/ \E idx \in GetIdxs : GetItem(idx)

\* the data processor called on the files of a data directory
ProcessorSpec == ProcessorInit /\ [][ProcessorNext]_vars

\* the life of a dataset: construction, then __len__ and __getitem__ calls
Spec == Init /\ [][Next]_vars

-----------------------------------------------------------------------------
(* Properties of the data processor (ProcessorSpec) *)

Called(s) == returned[s].status # "none"

Elems(seq) == {seq[k] : k \in 1..Len(seq)}

\* N of a file: the number of entries of its answers mapping
AnswerCount(file) == Cardinality(DOMAIN files[file]["answers"])

\* C1: the index sets get_dialog_examples selects for "train" and for "dev"
\* from a train file of N answers are disjoint, together they are 0..N-1, the
\* dev set is the multiples of 10 below N, and it has ceil(N/10) elements.
C1_TrainDevPartition ==
    (Called("train") /\ Called("dev")) =>
        LET N == AnswerCount(TrainFile)
            T == Elems(idxs["train"])
            D == Elems(idxs["dev"])
        IN  /\ T \cap D = {}
            /\ T \cup D = 0..(N - 1)
            /\ D = {i \in 0..(N - 1) : \E q \in 0..N : i = 10 * q}
            /\ Cardinality(D) = (N + 9) \div 10
            /\ Len(idxs["train"]) + Len(idxs["dev"]) = N

\* both splits computed on a train file of more than 10 answers
C1_Witness ==
    /\ Called("train") /\ Called("dev")
    /\ AnswerCount(TrainFile) > 10
    /\ Len(idxs["dev"]) = 2
    /\ Len(idxs["train"]) >= 9

\* every index below N is a key of every column of the file
AllPresent(file) ==
    \A i \in 0..(AnswerCount(file) - 1) : \A col \in Columns :
        Str(i) \in DOMAIN files[file][col]

\* C2: get_dialog_examples("test") selects every index of the dev file, and
\* when each of them is a key of every column it returns exactly N examples,
\* one per index of 0..N-1, multiples of 10 included.
C2_TestReadsWholeDevFile ==
    Called("test") =>
        LET N == AnswerCount(DevFile)
        IN  /\ idxs["test"] = [k \in 1..N |-> k - 1]
            /\ AllPresent(DevFile) =>
                  /\ returned["test"].status = "ok"
                  /\ Len(returned["test"].examples) = N
                  /\ \A i \in 0..(N - 1) :
                        \E k \in 1..N : returned["test"].examples[k].example_id = i

\* the test split returned the examples of a dev file of more than 10 answers
\* that is not as long as the train file
C2_Witness ==
    /\ Called("test")
    /\ returned["test"].status = "ok"
    /\ AnswerCount(DevFile) > 10
    /\ AnswerCount(DevFile) # AnswerCount(TrainFile)
    /\ \E k \in 1..Len(returned["test"].examples) :
          returned["test"].examples[k].example_id = 10

\* the fields of example ex are those of the record stored at key
RecordOf(ex, raw, key) ==
    /\ \A col \in Columns : key \in DOMAIN raw[col]
    /\ ex.utterance = raw["query"][key]
    /\ ex.labels[serviceField] = raw["query_type"][key]
    /\ ex.labels[responseField] =
          IF raw["answers"][key].t = "list" THEN Head(raw["answers"][key].v)
          ELSE raw["answers"][key].v
    /\ LET wfa == raw["wellFormedAnswers"][key]
           answers == IF wfa.t = "list" THEN wfa.v ELSE LiteralEval(wfa.v).v
       IN  ex.labels[fluentResponseField] =
              IF Len(answers) = 0 THEN None ELSE Head(answers)
    /\ Len(ex.possible_labels.passage) = Len(raw["passages"][key])
    /\ \A j \in 1..Len(raw["passages"][key]) :
          ex.possible_labels.passage[j] = raw["passages"][key][j].passage_text

\* C3: the returned list has one example per selected index, example_id is the
\* index whose record the fields were read from, and the ids are strictly
\* increasing (hence no two examples share one).
C3_ExampleIdIsCorpusIndex ==
    \A s \in Splits :
        returned[s].status = "ok" =>
            LET exs == returned[s].examples
                raw == files[SourceFile(s)]
            IN  /\ Len(exs) = Len(idxs[s])
                /\ \A k \in 1..Len(exs) :
                      /\ exs[k].example_id = idxs[s][k]
                      /\ RecordOf(exs[k], raw, Str(exs[k].example_id))
                /\ \A k \in 1..(Len(exs) - 1) :
                      exs[k].example_id < exs[k + 1].example_id

\* a split returned several examples, built from records that differ
C3_Witness ==
    \E s \in Splits :
        /\ returned[s].status = "ok"
        /\ Len(returned[s].examples) >= 3
        /\ returned[s].examples[1].utterance # returned[s].examples[3].utterance

\* some index is a key of query or passages and not of answers, or of answers
\* and not of query or passages
KeySetsDisagree(raw) ==
    \/ DOMAIN raw["query"] # DOMAIN raw["answers"]
    \/ DOMAIN raw["passages"] # DOMAIN raw["answers"]

\* C8 as stated: whenever the key sets of query/passages and answers disagree,
\* get_dialog_examples fails with a key-missing error and returns no examples.
C8_AnyMismatchFails ==
    \A s \in Splits :
        (Called(s) /\ KeySetsDisagree(files[SourceFile(s)])) =>
            /\ returned[s].status = "KeyError"
            /\ returned[s].examples = <<>>

\* some index the split selects is not a key of some column
SelectedKeyMissing(s) ==
    \E k \in 1..Len(idxs[s]) : \E col \in Columns :
        Str(idxs[s][k]) \notin DOMAIN files[SourceFile(s)][col]

\* C8 amended: get_dialog_examples fails with a key-missing error and returns
\* no examples exactly when some index it selects is not a key of one of the
\* five columns; a mismatch at an index it does not select goes unnoticed.
C8_SelectedMismatchFails ==
    \A s \in Splits :
        Called(s) =>
            /\ SelectedKeyMissing(s) =>
                  (returned[s].status = "KeyError" /\ returned[s].examples = <<>>)
            /\ ~SelectedKeyMissing(s) =>
                  (returned[s].status = "ok"
                   /\ Len(returned[s].examples) = Len(idxs[s]))

\* a call failed on a missing key, and another call returned examples from a
\* file whose key sets disagree
C8_Witness ==
    /\ \E s \in Splits :
          /\ SelectedKeyMissing(s)
          /\ returned[s].status = "KeyError"
    /\ \E s \in Splits :
          /\ returned[s].status = "ok"
          /\ returned[s].examples # <<>>
          /\ KeySetsDisagree(files[SourceFile(s)])

\* C10: labels.passage is the text of the first candidate passage whose
\* is_selected is a non-zero integer, None exactly when there is none;
\* possible_labels.passage lists the texts of all candidates in corpus order.
C10_FirstSelectedPassage ==
    \A s \in Splits :
        \A k \in 1..Len(returned[s].examples) :
            LET ex == returned[s].examples[k]
                cands == files[SourceFile(s)]["passages"][Str(ex.example_id)]
                flagged == {j \in 1..Len(cands) : PyInt(cands[j].is_selected) # 0}
            IN  /\ (ex.labels[passageField] = None) <=> (flagged = {})
                /\ flagged # {} =>
                      \E j \in flagged :
                          /\ \A h \in flagged : j <= h
                          /\ ex.labels[passageField] = cands[j].passage_text
                /\ Len(ex.possible_labels.passage) = Len(cands)
                /\ \A j \in 1..Len(cands) :
                      ex.possible_labels.passage[j] = cands[j].passage_text

\* a split returned a record whose selected passage is not its first candidate
\* and a record with candidates of which none is selected
C10_Witness ==
    \E s \in Splits :
        /\ \E k \in 1..Len(returned[s].examples) :
              LET ex == returned[s].examples[k]
              IN  /\ ex.labels[passageField] # None
                  /\ ex.labels[passageField] # ex.possible_labels.passage[1]
        /\ \E k \in 1..Len(returned[s].examples) :
              LET ex == returned[s].examples[k]
              IN  /\ ex.labels[passageField] = None
                  /\ ex.possible_labels.passage # <<>>

-----------------------------------------------------------------------------
(* Properties of the generation dataset (Spec) *)

\* the field names a '+'-joined field string names: its maximal stretches
\* without '+' (from position a to position b)
NamedFields(s) ==
    {SubSeq(s, p[1], p[2]) :
        p \in {q \in (1..(Len(s) + 1)) \X (0..Len(s)) :
                  /\ q[1] <= q[2] + 1
                  /\ q[1] = 1 \/ s[q[1] - 1] = "+"
                  /\ q[2] = Len(s) \/ s[q[2] + 1] = "+"
                  /\ \A k \in q[1]..q[2] : s[k] # "+"}}

\* the value of field f of an example, the utterance counting as a label
FieldValue(ex, f) == IF f = utteranceField THEN ex.utterance ELSE ex.labels[f]

\* a string with a character that is not whitespace
NonBlankString(v) == v # None /\ \E k \in 1..Len(v) : v[k] \notin Whitespace

\* every one of the fields is a non-blank string of the example
Complete(ex, fields) ==
    \A f \in fields :
        /\ f = utteranceField \/ f \in DOMAIN ex.labels
        /\ NonBlankString(FieldValue(ex, f))

Ids(exs) == [k \in 1..Len(exs) |-> exs[k].example_id]

\* C4: an example the processor returned is retained by the constructor,
\* before the debug truncation, iff every field named in input_field and
\* output_field is a non-blank string of its labels (labels.utterance being
\* the utterance); the retained examples keep the processor's order.
C4_RetainedIffComplete ==
    ds.status = "ok" =>
        LET fields == NamedFields(cfg.input_field) \cup NamedFields(cfg.output_field)
        IN
        /\ \A k \in 1..Len(fetched) :
              (\E j \in 1..Len(filtered) :
                    filtered[j].example_id = fetched[k].example_id)
              <=> Complete(fetched[k], fields)
        /\ \A j \in 1..Len(filtered) :
              \E k \in 1..Len(fetched) :
                  /\ filtered[j].example_id = fetched[k].example_id
                  /\ filtered[j].utterance = fetched[k].utterance
                  /\ filtered[j].labels[utteranceField] = fetched[k].utterance
                  /\ \A f \in DOMAIN fetched[k].labels :
                        filtered[j].labels[f] = fetched[k].labels[f]
        /\ \A j \in 1..(Len(filtered) - 1) :
              filtered[j].example_id < filtered[j + 1].example_id

\* a construction that kept some examples and dropped others, one of them
\* for a field that is whitespace and not empty
C4_Witness ==
    /\ ds.status = "ok"
    /\ filtered # <<>>
    /\ Len(filtered) < Len(fetched)
    /\ LET fields == NamedFields(cfg.input_field) \cup NamedFields(cfg.output_field)
       IN  \E k \in 1..Len(fetched) :
              /\ ~Complete(fetched[k], fields)
              /\ \A f \in fields : FieldValue(fetched[k], f) \notin {None, <<>>}

\* C5: in debug mode the dataset holds the first min(F, 16) of the F filtered
\* examples, length() is min(F, 16) and get(i) raises for i >= min(F, 16);
\* without debug mode length() is F.
C5_DebugPrefix ==
    ds.status = "ok" =>
        LET F == Len(filtered)
            kept == IF F <= 16 THEN F ELSE 16
        IN  /\ cfg.debug_mode =>
                  /\ Len(ds.features) = kept
                  /\ \A k \in 1..kept :
                        ds.features[k].example_id = filtered[k].example_id
                  /\ lenResult # -1 => lenResult = kept
                  /\ (last.status # "none" /\ last.idx >= kept) =>
                        last.status = "IndexError"
            /\ ~cfg.debug_mode =>
                  /\ lenResult # -1 => lenResult = F
                  /\ Ids(ds.features) = Ids(filtered)

\* debug mode with more than 16 filtered examples: length() was 16 and
\* get(16) was out of range
C5_Witness ==
    /\ ds.status = "ok"
    /\ cfg.debug_mode
    /\ Len(filtered) > 16
    /\ lenResult = 16
    /\ last.idx = 16
    /\ last.status = "IndexError"

Colon == <<":", " ">>

\* the example get(last.idx) read, as the constructor left it
LastExample == built[Position(last.idx, Len(built))]

\* C6: the prompt of get(index) is "f1: v1 f2: v2 ... fk: vk" for the fields
\* f1..fk of input_field in their order, vi the label of fi (the utterance
\* for the field utterance), with one space between fragments.
C6_PromptFormat ==
    last.status = "ok" =>
        LET ex == LastExample
            u == utteranceField \o Colon \o ex.utterance
            pa == passageField \o Colon \o ex.labels[passageField]
            se == serviceField \o Colon \o ex.labels[serviceField]
        IN  /\ cfg.input_field = utteranceField => last.input_sentence = u
            /\ cfg.input_field = passageField \o <<"+">> \o utteranceField =>
                  last.input_sentence = pa \o <<" ">> \o u
            /\ cfg.input_field =
                  serviceField \o <<"+">> \o passageField \o <<"+">> \o utteranceField =>
                  last.input_sentence = se \o <<" ">> \o pa \o <<" ">> \o u

\* input_field "passage+utterance", passage "P" and utterance "U" gave the
\* prompt "passage: P utterance: U"
C6_Witness ==
    /\ last.status = "ok"
    /\ cfg.input_field = passageField \o <<"+">> \o utteranceField
    /\ LastExample.labels[passageField] = <<"P">>
    /\ LastExample.utterance = <<"U">>
    /\ last.input_sentence =
          <<"p", "a", "s", "s", "a", "g", "e", ":", " ", "P", " ",
            "u", "t", "t", "e", "r", "a", "n", "c", "e", ":", " ", "U">>

\* a one-dimensional sequence of n numbers
IsVector(t, n) == t.shape = <<n>> /\ Len(t.data) = n

\* C7: get(index) returns three sequences of length max_seq_length, the
\* target being the tokenizer's padded target ids with the pad id replaced by
\* -100 and every other position unchanged.
C7_FixedLengthMaskedTarget ==
    last.status = "ok" =>
        LET L == cfg.max_seq_length
            target == Tokenize(last.output_sentence, L).input_ids.data
        IN  /\ IsVector(last.input_ids, L)
            /\ IsVector(last.attn_masks, L)
            /\ IsVector(last.labels, L)
            /\ \A k \in 1..L :
                  last.labels.data[k] =
                      IF target[k] = pad_token_id THEN -100 ELSE target[k]

\* C9: get and length calls leave the retained examples as the constructor
\* left them, so length() is the constructed length and every get(idx)
\* returns what get(idx) returns on the constructed list.
C9_ReadOnlyAfterConstruction ==
    ds.status = "ok" =>
        /\ ds.features = built
        /\ lenResult # -1 => lenResult = Len(built)
        /\ last.status # "none" => last = GetItemResult(built, cfg, last.idx).item

\* a get that returned tensors, on a dataset whose length was asked for
C9_Witness ==
    /\ ds.status = "ok"
    /\ last.status = "ok"
    /\ lenResult = Len(built)
    /\ Len(built) >= 2

====
